---- MODULE Spec2Model ----
(***************************************************************************)
(* Team Step Tracker (src/app.py): the StepTrackerDB store, its JSON file, *)
(* and the main_app handlers that change the store.                        *)
(*                                                                         *)
(* A Python dict of fixed keys is a record; the users dict, whose          *)
(* insertion order get_all_usernames exposes, is a sequence of user        *)
(* records; a history dict is a function from date strings to integers.    *)
(* Calendar dates are day ordinals (1 is 2024-01-01, a Monday); the ISO    *)
(* strings the store keeps are produced by isoformat and parsed by         *)
(* fromisoformat.                                                          *)
(***************************************************************************)
EXTENDS Integers, Sequences, FiniteSets, TLC

VARIABLES
    data,   \* StepTrackerDB.data, the in-memory dict of the session's store
    disk,   \* the file step_data.json: [exists |-> FALSE] or its content
    today,  \* date.today() as a day ordinal
    nops,   \* number of operations performed so far
    last,   \* the most recent operation, its arguments and its outcome
    other_data  \* StepTrackerDB.data of a second session on the file, if any

vars == <<data, disk, today, nops, last, other_data>>

----------------------------------------------------------------------------
(* Bounds of the model *)

MaxOps == 2
MaxDay == 3
MaxStepLevel == 1

----------------------------------------------------------------------------
(* Python values *)

None == "None"

DEFAULT_DAILY_GOAL == 10000

----------------------------------------------------------------------------
(* datetime.date *)

Pad2(n) == IF n < 10 THEN "0" \o ToString(n) ELSE ToString(n)

\* date.isoformat(): ordinals 1..31 are January 2024, -30..0 December 2023,
\* 32..60 February 2024.
isoformat(n) ==
    IF n >= 32 THEN "2024-02-" \o Pad2(n - 31)
    ELSE IF n >= 1 THEN "2024-01-" \o Pad2(n)
    ELSE "2023-12-" \o Pad2(n + 31)

Ordinals == (0 - 30)..60

IsoTable == [n \in Ordinals |-> isoformat(n)]

\* date.fromisoformat(s) raises ValueError unless s is an ISO calendar date
parses(s) == \E n \in Ordinals : IsoTable[n] = s

fromisoformat(s) == CHOOSE n \in Ordinals : IsoTable[n] = s

\* date.weekday(): Monday is 0
weekday(n) == (n - 1) % 7

----------------------------------------------------------------------------
(* dict helpers *)

RECURSIVE SumSeq(_)
SumSeq(s) == IF s = <<>> THEN 0 ELSE Head(s) + SumSeq(Tail(s))

RECURSIVE SetToSeq(_)
SetToSeq(S) ==
    IF S = {} THEN <<>>
    ELSE LET x == CHOOSE y \in S : TRUE IN <<x>> \o SetToSeq(S \ {x})

\* list(users.keys())
Keys(users) == [i \in 1..Len(users) |-> users[i].name]

\* username in users
Has(users, username) == \E i \in 1..Len(users) : users[i].name = username

\* users[username]
Get(users, username) ==
    users[CHOOSE i \in 1..Len(users) : users[i].name = username]

\* users[username] = rec (a new key goes last, an old key keeps its place)
Put(users, username, rec) ==
    IF Has(users, username)
    THEN [i \in 1..Len(users) |->
            IF users[i].name = username THEN rec ELSE users[i]]
    ELSE Append(users, rec)

\* del users[username]
Del(users, username) ==
    SelectSeq(users, LAMBDA r : r.name # username)

\* history[log_date] = steps
SetItem(history, key, value) ==
    [k \in DOMAIN history \cup {key} |-> IF k = key THEN value ELSE history[k]]

----------------------------------------------------------------------------
(* StepTrackerDB *)

default ==
    [users |-> <<>>,
     challenge |-> [active |-> FALSE, team_goal |-> 0,
                    start_date |-> None, end_date |-> None],
     weekly_goal |-> [goal |-> 0, week_start |-> None],
     admin_message |-> ""]

\* mutant: a file without one of the later sections is not used at all
load_data_all_or_nothing(file) ==
    IF file.exists
       /\ {"challenge", "weekly_goal", "admin_message"} \subseteq DOMAIN file.content
    THEN file.content
    ELSE default

\* load_data: the file's content, with the three later sections defaulted
load_data(file) ==
    IF file.exists
    THEN LET d == file.content IN
         [k \in DOMAIN d \cup {"challenge", "weekly_goal", "admin_message"} |->
            IF k \in DOMAIN d THEN d[k] ELSE default[k]]
    ELSE default

\* mutant: only the users section is written
save_data_users_only(d) == [exists |-> TRUE, content |-> [users |-> d.users]]

\* save_data: the whole dict is dumped to the file
save_data(d) == [exists |-> TRUE, content |-> d]

NewUser(username) ==
    [name |-> username, daily_goal |-> DEFAULT_DAILY_GOAL, history |-> <<>>]

\* mutant: the default record is assigned without the membership test
get_user_data_resets(d, username) ==
    [d EXCEPT !.users = Put(d.users, username, NewUser(username))]

\* get_user_data: the dict after the call (a missing user is created)
get_user_data(d, username) ==
    IF ~Has(d.users, username)
    THEN [d EXCEPT !.users = Append(d.users, NewUser(username))]
    ELSE d

\* set_goal: no check of goal; the user is created when missing
set_goal(d, username, goal) ==
    LET d1 == get_user_data(d, username)
        user_data == Get(d1.users, username)
    IN  [d1 EXCEPT !.users =
            Put(d1.users, username, [user_data EXCEPT !.daily_goal = goal])]

\* mutant: the steps are added to the day's entry
log_steps_adds(d, username, steps, log_date) ==
    LET d1 == get_user_data(d, username)
        user_data == Get(d1.users, username)
        old == IF log_date \in DOMAIN user_data.history
               THEN user_data.history[log_date] ELSE 0
    IN  [d1 EXCEPT !.users =
            Put(d1.users, username,
                [user_data EXCEPT !.history = SetItem(@, log_date, old + steps)])]

\* log_steps: no check of steps; history[log_date] is assigned
log_steps(d, username, steps, log_date) ==
    LET d1 == get_user_data(d, username)
        user_data == Get(d1.users, username)
    IN  [d1 EXCEPT !.users =
            Put(d1.users, username,
                [user_data EXCEPT !.history = SetItem(@, log_date, steps)])]

get_all_usernames(d) == Keys(d.users)

\* get_challenge adds a missing target_end_date key to the stored dict
\* (in memory only): the dict after the call
get_challenge(d) ==
    [d EXCEPT !.challenge =
        IF "target_end_date" \in DOMAIN @ THEN @
        ELSE SetItem(@, "target_end_date", None)]

\* mutant: the stored challenge dict is updated, end_date left as it was
set_challenge_updates(d, team_goal, start_date, target_end_date) ==
    [d EXCEPT !.challenge =
        SetItem(SetItem(SetItem(SetItem(@, "active", TRUE),
                                "team_goal", team_goal),
                        "start_date", start_date),
                "target_end_date", target_end_date)]

\* mutant: a new challenge also empties every user's history
set_challenge_resets(d, team_goal, start_date, target_end_date) ==
    [d EXCEPT
        !.users = [i \in 1..Len(@) |-> [@[i] EXCEPT !.history = <<>>]],
        !.challenge =
            [active |-> TRUE,
             team_goal |-> team_goal,
             start_date |-> start_date,
             end_date |-> None,
             target_end_date |-> target_end_date]]

\* set_challenge: the challenge dict is replaced by a new one
set_challenge(d, team_goal, start_date, target_end_date) ==
    [d EXCEPT !.challenge =
        [active |-> TRUE,
         team_goal |-> team_goal,
         start_date |-> start_date,
         end_date |-> None,
         target_end_date |-> target_end_date]]

\* mutant: the challenge dict is replaced, only the end date kept
end_challenge_replaces(d, end_date) ==
    [d EXCEPT !.challenge =
        [active |-> FALSE, team_goal |-> 0, start_date |-> None,
         end_date |-> end_date, target_end_date |-> None]]

\* end_challenge: two keys of the stored challenge dict are assigned
end_challenge(d, end_date) ==
    [d EXCEPT !.challenge =
        SetItem(SetItem(@, "active", FALSE), "end_date", end_date)]

\* c.get(key): None for a missing key
DictGet(c, key) == IF key \in DOMAIN c THEN c[key] ELSE None

\* Python truth value of a str-or-None
Truthy(v) == v # None /\ v # ""

\* mutant: the last day of the range is left out (d < end_d)
RECURSIVE StepsInRangeHalfOpen(_, _, _, _)
StepsInRangeHalfOpen(history, keys, start_d, end_d) ==
    IF keys = {} THEN 0
    ELSE LET log_date_str == CHOOSE k \in keys : TRUE
             counted ==
                IF parses(log_date_str)
                THEN start_d <= fromisoformat(log_date_str)
                     /\ fromisoformat(log_date_str) < end_d
                ELSE FALSE
         IN  (IF counted THEN history[log_date_str] ELSE 0)
             + StepsInRangeHalfOpen(history, keys \ {log_date_str}, start_d, end_d)

\* the inner loop of get_team_steps_in_challenge over one history dict
RECURSIVE StepsInRange(_, _, _, _)
StepsInRange(history, keys, start_d, end_d) ==
    IF keys = {} THEN 0
    ELSE LET log_date_str == CHOOSE k \in keys : TRUE
             counted ==
                IF parses(log_date_str)
                THEN start_d <= fromisoformat(log_date_str)
                     /\ fromisoformat(log_date_str) <= end_d
                ELSE FALSE   \* except ValueError: pass
         IN  (IF counted THEN history[log_date_str] ELSE 0)
             + StepsInRange(history, keys \ {log_date_str}, start_d, end_d)

\* get_team_steps_in_challenge: the total, or the ValueError that
\* date.fromisoformat raises on a range endpoint
get_team_steps_in_challenge(d, now) ==
    LET c == get_challenge(d).challenge
        start == DictGet(c, "start_date")
        end == IF Truthy(DictGet(c, "end_date"))
               THEN DictGet(c, "end_date") ELSE isoformat(now)
    IN  IF ~Truthy(start) THEN [raised |-> FALSE, total |-> 0]
        ELSE IF ~parses(start) \/ ~parses(end)
        THEN [raised |-> TRUE, total |-> 0]
        ELSE [raised |-> FALSE,
              total |-> SumSeq([i \in 1..Len(d.users) |->
                          StepsInRange(d.users[i].history,
                                       DOMAIN d.users[i].history,
                                       fromisoformat(start),
                                       fromisoformat(end))])]

\* str.strip() on the announcement texts of the model
strip(text) ==
    CASE text = "  well done " -> "well done"
      [] text = "   " -> ""
      [] OTHER -> text

\* set_admin_message: (text or "").strip()
set_admin_message(d, text) ==
    [d EXCEPT !.admin_message = strip(IF Truthy(text) THEN text ELSE "")]

\* set_weekly_goal: week_start is the Monday of today's week
set_weekly_goal_today(d, goal, now) ==
    [d EXCEPT !.weekly_goal = [goal |-> goal, week_start |-> isoformat(now)]]

set_weekly_goal(d, goal, now) ==
    [d EXCEPT !.weekly_goal =
        [goal |-> goal, week_start |-> isoformat(now - weekday(now))]]

Sections == {"users", "challenge", "weekly_goal", "admin_message"}

\* mutant: the backup replaces the whole dict, absent sections are reset
load_from_backup_resets(d, data_dict) ==
    LET present == DOMAIN data_dict \cap Sections IN
    [k \in DOMAIN d \cup present |->
        IF k \in present THEN data_dict[k] ELSE default[k]]

\* mutant: the announcement is not restored
load_from_backup_skips(d, data_dict) ==
    LET present == (DOMAIN data_dict \cap Sections) \ {"admin_message"} IN
    [k \in DOMAIN d \cup present |->
        IF k \in present THEN data_dict[k] ELSE d[k]]

\* load_from_backup: each section present in data_dict replaces the stored one
load_from_backup(d, data_dict) ==
    LET present == DOMAIN data_dict \cap Sections IN
    [k \in DOMAIN d \cup present |->
        IF k \in present THEN data_dict[k] ELSE d[k]]

----------------------------------------------------------------------------
(* json: a document is a tree of <<"object", members>>, <<"string", s>>,  *)
(* <<"number", n>>, <<"bool", b>> and <<"null">>; the members of an object *)
(* are a sequence of <<key, value>> pairs in the order they were written.  *)

JNull == <<"null">>

\* a str-or-None value
DumpOpt(v) == IF v = None THEN JNull ELSE <<"string", v>>

DumpHistory(history) ==
    LET keys == SetToSeq(DOMAIN history) IN
    <<"object", [i \in 1..Len(keys) |->
                    <<keys[i], <<"number", history[keys[i]]>> >>]>>

DumpUser(r) ==
    <<"object", << <<"daily_goal", <<"number", r.daily_goal>> >>,
                   <<"history", DumpHistory(r.history)>> >> >>

DumpUsers(users) ==
    <<"object", [i \in 1..Len(users) |-> <<users[i].name, DumpUser(users[i])>>]>>

\* the fields of the challenge and weekly_goal dicts, by their types
DumpField(key, v) ==
    CASE key = "active" -> <<"bool", v>>
      [] key \in {"team_goal", "goal"} -> <<"number", v>>
      [] OTHER -> DumpOpt(v)

DumpDict(c) ==
    LET keys == SetToSeq(DOMAIN c) IN
    <<"object", [i \in 1..Len(keys) |-> <<keys[i], DumpField(keys[i], c[keys[i]])>>]>>

DumpSection(key, v) ==
    CASE key = "users" -> DumpUsers(v)
      [] key = "admin_message" -> <<"string", v>>
      [] OTHER -> DumpDict(v)

\* json.dumps(db.data)
json_dumps(d) ==
    LET keys == SetToSeq(DOMAIN d) IN
    <<"object", [i \in 1..Len(keys) |-> <<keys[i], DumpSection(keys[i], d[keys[i]])>>]>>

\* the value of the last member named key (a repeated key keeps the last)
Member(members, key) ==
    members[CHOOSE i \in 1..Len(members) :
                /\ members[i][1] = key
                /\ \A j \in (i + 1)..Len(members) : members[j][1] # key][2]

MemberKeys(members) == {members[i][1] : i \in 1..Len(members)}

LoadScalar(j) == IF j[1] = "null" THEN None ELSE j[2]

\* an object whose values are scalars
LoadDict(j) == [k \in MemberKeys(j[2]) |-> LoadScalar(Member(j[2], k))]

LoadUser(username, j) ==
    [name |-> username,
     daily_goal |-> LoadScalar(Member(j[2], "daily_goal")),
     history |-> LoadDict(Member(j[2], "history"))]

RECURSIVE LoadUsers(_, _)
LoadUsers(members, users) ==
    IF members = <<>> THEN users
    ELSE LoadUsers(Tail(members),
                   Put(users, Head(members)[1],
                       LoadUser(Head(members)[1], Head(members)[2])))

LoadSection(key, j) ==
    CASE key = "users" -> LoadUsers(j[2], <<>>)
      [] key = "admin_message" -> LoadScalar(j)
      [] OTHER -> LoadDict(j)

\* json.load(uploaded)
json_load(doc) ==
    [k \in MemberKeys(doc[2]) |-> LoadSection(k, Member(doc[2], k))]

----------------------------------------------------------------------------
(* Inputs of the operations *)

Usernames == {"A", "B"}

Days == 1..MaxDay

LogDates == {isoformat(n) : n \in Days}

StepInputs == {0 - 100} \cup {5000 * k : k \in 1..MaxStepLevel}

GoalInputs == {0, 8000}

TeamGoalInputs == {20000}

TargetInputs == {None, isoformat(MaxDay)}

AdminInputs == {"  well done ", "   "}

ConfirmInputs == {"DELETE ALL", "delete"}

\* step_data.json as the first session finds it: absent, written by the
\* first version of the app (users only), or written by the current one
LegacyFile ==
    [users |->
        << [name |-> "A", daily_goal |-> 10000,
            history |-> (isoformat(1) :> 7000) @@ (isoformat(2) :> 10000)] >>]

CurrentFile ==
    [users |->
        << [name |-> "B", daily_goal |-> 8000,
            history |-> (isoformat(1) :> 3000) @@ (isoformat(2) :> 5000)
                        @@ (isoformat(3) :> 2000)],
           [name |-> "A", daily_goal |-> 10000,
            history |-> (isoformat(2) :> 10000)] >>,
     challenge |-> [active |-> TRUE, team_goal |-> 25000,
                    start_date |-> isoformat(1), end_date |-> None,
                    target_end_date |-> isoformat(3)],
     weekly_goal |-> [goal |-> 50000, week_start |-> isoformat(1)],
     admin_message |-> "go team"]

InitialFiles ==
    {[exists |-> FALSE],
     [exists |-> TRUE, content |-> LegacyFile],
     [exists |-> TRUE, content |-> CurrentFile]}

\* the backup files a user uploads
BackupUsersOnly ==
    [users |->
        << [name |-> "A", daily_goal |-> 12000,
            history |-> (isoformat(1) :> 4000)] >>]

BackupFull ==
    [users |->
        << [name |-> "B", daily_goal |-> 9000, history |-> <<>>],
           [name |-> "A", daily_goal |-> 10000,
            history |-> (isoformat(2) :> 6000)] >>,
     challenge |-> [active |-> TRUE, team_goal |-> 30000,
                    start_date |-> isoformat(1), end_date |-> None,
                    target_end_date |-> None],
     weekly_goal |-> [goal |-> 70000, week_start |-> isoformat(1)],
     admin_message |-> "restored"]

BackupNoUsers ==
    [challenge |-> [active |-> TRUE, team_goal |-> 40000,
                    start_date |-> isoformat(2), end_date |-> None,
                    target_end_date |-> None],
     weekly_goal |-> [goal |-> 60000, week_start |-> isoformat(1)],
     admin_message |-> "no users"]

BackupCorrupt ==
    [users |->
        << [name |-> "A", daily_goal |-> 10000,
            history |-> ("not-a-date" :> 9000) @@ (isoformat(2) :> 1000)] >>,
     challenge |-> [active |-> TRUE, team_goal |-> 20000,
                    start_date |-> "01/02/2024", end_date |-> None,
                    target_end_date |-> None]]

Uploads ==
    {json_dumps(b) :
        b \in {BackupUsersOnly, BackupFull, BackupNoUsers, BackupCorrupt}}

----------------------------------------------------------------------------
(* Operations *)

Did(op, args) == [op |-> op, args |-> args, error |-> "", result |-> 0]

Failed(op, args, error) ==
    [op |-> op, args |-> args, error |-> error, result |-> 0]

Step == nops < MaxOps /\ nops' = nops + 1 /\ UNCHANGED other_data

\* db.get_user_data(name): saves only when it creates the user
GetUserData(username) ==
    /\ Step
    /\ data' = get_user_data(data, username)
    /\ disk' = IF Has(data.users, username) THEN disk ELSE save_data(data')
    /\ last' = Did("get_user_data", <<username>>)
    /\ UNCHANGED today

SetGoal(username, goal) ==
    /\ Step
    /\ data' = set_goal(data, username, goal)
    /\ disk' = save_data(data')
    /\ last' = Did("set_goal", <<username, goal>>)
    /\ UNCHANGED today

LogSteps(username, steps, log_date) ==
    /\ Step
    /\ data' = log_steps(data, username, steps, log_date)
    /\ disk' = save_data(data')
    /\ last' = Did("log_steps", <<username, steps, log_date>>)
    /\ UNCHANGED today

\* mutant: the user is deleted in memory and the file is not written
RemoveUserUnsaved(user_to_delete) ==
    /\ nops < MaxOps /\ nops' = nops + 1 /\ UNCHANGED other_data
    /\ data' = [data EXCEPT !.users = Del(@, user_to_delete)]
    /\ last' = [op |-> "remove_user", args |-> <<user_to_delete>>,
                error |-> "", result |-> 0]
    /\ UNCHANGED <<disk, today>>

\* main_app, "Remove This User"
RemoveUser(user_to_delete) ==
    /\ Step
    /\ IF Has(data.users, user_to_delete)
       THEN /\ data' = [data EXCEPT !.users = Del(@, user_to_delete)]
            /\ disk' = save_data(data')
       ELSE UNCHANGED <<data, disk>>
    /\ last' = Did("remove_user", <<user_to_delete>>)
    /\ UNCHANGED today

\* main_app, "Clear All Users" (offered when there are users)
ClearAllUsers(confirm_clear) ==
    /\ Step
    /\ Len(data.users) > 0
    /\ IF confirm_clear = "DELETE ALL"
       THEN /\ data' = [data EXCEPT !.users = <<>>]
            /\ disk' = save_data(data')
            /\ last' = Did("clear_all", <<confirm_clear>>)
       ELSE /\ UNCHANGED <<data, disk>>
            /\ last' = Failed("clear_all", <<confirm_clear>>,
                              "Please type 'DELETE ALL' to confirm")
    /\ UNCHANGED today

SetAdminMessage(text) ==
    /\ Step
    /\ data' = set_admin_message(data, text)
    /\ disk' = save_data(data')
    /\ last' = Did("set_admin_message", <<text>>)
    /\ UNCHANGED today

SetChallenge(team_goal, start_date, target_end_date) ==
    /\ Step
    /\ data' = set_challenge(data, team_goal, start_date, target_end_date)
    /\ disk' = save_data(data')
    /\ last' = Did("set_challenge", <<team_goal, start_date, target_end_date>>)
    /\ UNCHANGED today

\* db.end_challenge(date.today().isoformat())
EndChallenge ==
    /\ Step
    /\ data' = end_challenge(data, isoformat(today))
    /\ disk' = save_data(data')
    /\ last' = Did("end_challenge", <<isoformat(today)>>)
    /\ UNCHANGED today

SetWeeklyGoal(goal) ==
    /\ Step
    /\ data' = set_weekly_goal(data, goal, today)
    /\ disk' = save_data(data')
    /\ last' = Did("set_weekly_goal", <<goal>>)
    /\ UNCHANGED today

\* mutant: load_from_backup is called on any document
RestoreBackupUnchecked(uploaded) ==
    /\ nops < MaxOps /\ nops' = nops + 1 /\ UNCHANGED other_data
    /\ data' = load_from_backup(data, json_load(uploaded))
    /\ disk' = save_data(data')
    /\ last' = [op |-> "restore", args |-> <<uploaded>>, error |-> "",
                result |-> 0]
    /\ UNCHANGED today

\* main_app, "Restore from backup": a document without users is refused
\* before load_from_backup is called
RestoreBackup(uploaded) ==
    /\ Step
    /\ LET restored == json_load(uploaded) IN
       IF "users" \in DOMAIN restored
       THEN /\ data' = load_from_backup(data, restored)
            /\ disk' = save_data(data')
            /\ last' = Did("restore", <<uploaded>>)
       ELSE /\ UNCHANGED <<data, disk>>
            /\ last' = Failed("restore", <<uploaded>>,
                              "Invalid backup file: missing 'users'.")
    /\ UNCHANGED today

\* db.get_challenge(): nothing is saved
GetChallenge ==
    /\ Step
    /\ data' = get_challenge(data)
    /\ last' = Did("get_challenge", <<>>)
    /\ UNCHANGED <<disk, today>>

\* db.get_team_steps_in_challenge(): calls get_challenge, saves nothing
GetTeamStepsInChallenge ==
    /\ Step
    /\ data' = get_challenge(data)
    /\ LET r == get_team_steps_in_challenge(data, today) IN
       last' = [op |-> "get_team_steps_in_challenge", args |-> <<>>,
                error |-> IF r.raised THEN "ValueError" ELSE "",
                result |-> r.total]
    /\ UNCHANGED <<disk, today>>

\* midnight: date.today() moves on
Tick ==
    /\ Step
    /\ today < MaxDay
    /\ today' = today + 1
    /\ last' = Did("tick", <<>>)
    /\ UNCHANGED <<data, disk>>

----------------------------------------------------------------------------

\* StepTrackerDB(): the session's store loads the file
Init ==
    /\ disk \in InitialFiles
    /\ data = load_data(disk)
    /\ today = 2        \* the session starts on 2024-01-02
    /\ nops = 0
    /\ last = Did("init", <<>>)
    /\ other_data = None     \* no second session

Next ==
    \/ \E u \in Usernames : GetUserData(u)
    \/ \E u \in Usernames, g \in GoalInputs : SetGoal(u, g)
    \/ \E u \in Usernames, s \in StepInputs, d \in LogDates : LogSteps(u, s, d)
    \/ \E u \in Usernames : RemoveUser(u)
    \/ \E c \in ConfirmInputs : ClearAllUsers(c)
    \/ \E t \in AdminInputs : SetAdminMessage(t)
    \/ \E g \in TeamGoalInputs, s \in LogDates, t \in TargetInputs :
          SetChallenge(g, s, t)
    \/ EndChallenge
    \/ \E g \in {0, 100000} : SetWeeklyGoal(g)
    \/ \E doc \in Uploads : RestoreBackup(doc)
    \/ GetChallenge
    \/ GetTeamStepsInChallenge
    \/ Tick

Spec == Init /\ [][Next]_vars

----------------------------------------------------------------------------
(* Weekly goal, leaderboard and team statistics *)

\* history.get(key, 0)
HistoryGet(history, key) == IF key \in DOMAIN history THEN history[key] ELSE 0

\* sum(history.values())
RECURSIVE SumValues(_, _)
SumValues(history, keys) ==
    IF keys = {} THEN 0
    ELSE LET k == CHOOSE x \in keys : TRUE IN
         history[k] + SumValues(history, keys \ {k})

\* the inner loop of get_team_steps_this_week over one history dict
RECURSIVE StepsInWeek(_, _, _, _)
StepsInWeek(history, keys, week_start, now) ==
    IF keys = {} THEN 0
    ELSE LET log_date_str == CHOOSE k \in keys : TRUE
             counted ==
                IF parses(log_date_str)
                THEN week_start <= fromisoformat(log_date_str)
                     /\ fromisoformat(log_date_str) <= now
                ELSE FALSE   \* except ValueError: pass
         IN  (IF counted THEN history[log_date_str] ELSE 0)
             + StepsInWeek(history, keys \ {log_date_str}, week_start, now)

\* mutant: the week starts at the stored week_start when there is one
get_team_steps_this_week_stored(d, now) ==
    LET stored == d.weekly_goal.week_start
        week_start == IF stored # None /\ parses(stored)
                      THEN fromisoformat(stored)
                      ELSE now - weekday(now)
    IN  SumSeq([i \in 1..Len(d.users) |->
                  StepsInWeek(d.users[i].history, DOMAIN d.users[i].history,
                              week_start, now)])

\* get_team_steps_this_week
get_team_steps_this_week(d, now) ==
    LET week_start == now - weekday(now) IN
    SumSeq([i \in 1..Len(d.users) |->
              StepsInWeek(d.users[i].history, DOMAIN d.users[i].history,
                          week_start, now)])

\* the sum of history.get(check_date, 0) over the last 7 days
Last7Days(history, now) ==
    SumSeq([k \in 1..7 |-> HistoryGet(history, isoformat(now - (k - 1)))])

\* the leaderboard row of one user (the Progress text is left out)
LeaderboardRow(user, period, now) ==
    [User |-> user.name,
     Steps |-> IF period = "today"
               THEN HistoryGet(user.history, isoformat(now))
               ELSE Last7Days(user.history, now),
     Goal |-> IF period = "week" THEN user.daily_goal * 7
              ELSE user.daily_goal]

\* one insertion of a stable descending sort: row goes behind every row
\* with at least as many steps
RECURSIVE InsertRow(_, _)
InsertRow(sorted, row) ==
    IF sorted = <<>> THEN <<row>>
    ELSE IF Head(sorted).Steps >= row.Steps
         THEN <<Head(sorted)>> \o InsertRow(Tail(sorted), row)
         ELSE <<row>> \o sorted

\* one insertion of a stable ascending sort
RECURSIVE InsertRowAscending(_, _)
InsertRowAscending(sorted, row) ==
    IF sorted = <<>> THEN <<row>>
    ELSE IF Head(sorted).Steps <= row.Steps
         THEN <<Head(sorted)>> \o InsertRowAscending(Tail(sorted), row)
         ELSE <<row>> \o sorted

RECURSIVE SortAscending(_)
SortAscending(rows) ==
    IF rows = <<>> THEN <<>>
    ELSE InsertRowAscending(SortAscending(SubSeq(rows, 1, Len(rows) - 1)),
                            rows[Len(rows)])

\* mutant: sorted ascending and then reversed, which reverses the ties
sort_reversed(rows) ==
    LET asc == SortAscending(rows) IN
    [i \in 1..Len(rows) |-> asc[Len(rows) + 1 - i]]

\* leaderboard_data.sort(key=Steps, reverse=True): stable, descending
RECURSIVE sort(_)
sort(rows) ==
    IF rows = <<>> THEN <<>>
    ELSE InsertRow(sort(SubSeq(rows, 1, Len(rows) - 1)), rows[Len(rows)])

\* create_team_leaderboard: the rows of the data frame, top to bottom
create_team_leaderboard(d, period, now) ==
    sort([i \in 1..Len(d.users) |-> LeaderboardRow(d.users[i], period, now)])

\* the active_this_week counter after the 7 days of one user: the test
\* "username not in [u for u in all_users if active_this_week]" holds
\* exactly while the counter is 0
RECURSIVE ActiveThisWeekUser(_, _, _, _)
ActiveThisWeekUser(history, now, i, active_this_week) ==
    IF i = 7 THEN active_this_week
    ELSE ActiveThisWeekUser(history, now, i + 1,
            IF HistoryGet(history, isoformat(now - i)) > 0
               /\ active_this_week = 0
            THEN active_this_week + 1
            ELSE active_this_week)

\* the active_this_week counter after the users from index i on
RECURSIVE ActiveThisWeek(_, _, _, _)
ActiveThisWeek(users, now, i, active_this_week) ==
    IF i > Len(users) THEN active_this_week
    ELSE ActiveThisWeek(users, now, i + 1,
            ActiveThisWeekUser(users[i].history, now, 0, active_this_week))

\* the streak loop of get_team_statistics from day today - i on
RECURSIVE streak(_, _, _)
streak(user, now, i) ==
    IF i = 30 THEN 0
    ELSE IF HistoryGet(user.history, isoformat(now - i)) >= user.daily_goal
         THEN 1 + streak(user, now, i + 1)
         ELSE 0    \* break

\* max(streak_counts)
Max(counts) ==
    CHOOSE m \in {counts[i] : i \in 1..Len(counts)} :
        \A i \in 1..Len(counts) : counts[i] <= m

\* total_steps_all_time after the loop over the users
total_steps_all_time(users) ==
    SumSeq([i \in 1..Len(users) |->
              SumValues(users[i].history, DOMAIN users[i].history)])

\* get_team_statistics: None without users, else the dict of statistics
get_team_statistics(d, now) ==
    IF d.users = <<>> THEN None
    ELSE
    LET users == d.users
        total_members == Len(users)
        today_steps == [i \in 1..Len(users) |->
                           HistoryGet(users[i].history, isoformat(now))]
        week_steps == [i \in 1..Len(users) |-> Last7Days(users[i].history, now)]
        streak_counts == [i \in 1..Len(users) |-> streak(users[i], now, 0)]
        total_steps_today == SumSeq(today_steps)
        total_steps_week == SumSeq(week_steps)
    IN  [total_members |-> total_members,
         active_today |->
            Cardinality({i \in 1..Len(users) : today_steps[i] > 0}),
         active_this_week |-> ActiveThisWeek(users, now, 1, 0),
         total_steps_all_time |-> total_steps_all_time(users),
         total_steps_today |-> total_steps_today,
         total_steps_week |-> total_steps_week,
         avg_steps_per_member_today |-> total_steps_today \div total_members,
         avg_steps_per_member_week |-> total_steps_week \div total_members,
         goals_met_today |->
            Cardinality({i \in 1..Len(users) :
                            today_steps[i] >= users[i].daily_goal}),
         goals_met_week |->
            Cardinality({i \in 1..Len(users) :
                            week_steps[i] >= users[i].daily_goal * 7}),
         longest_streak |-> Max(streak_counts),
         avg_streak |-> SumSeq(streak_counts) \div Len(streak_counts)]

\* a history with steps on every day from lo to hi
Run(lo, hi, steps) == [k \in {IsoTable[n] : n \in lo..hi} |-> steps]

\* teams as the statistics tab finds them on the day now
TeamStreaks(now) ==
    << [name |-> "A", daily_goal |-> 10000,
        history |-> Run(now - 1, now, 10000) @@ (isoformat(now - 2) :> 5000)
                    @@ (isoformat(now - 3) :> 11000)],
       [name |-> "B", daily_goal |-> 8000,
        history |-> Run(now - 32, now, 8000)],
       [name |-> "C", daily_goal |-> 10000,
        history |-> Run(now - 28, now, 12000)] >>

TeamTies(now) ==
    << [name |-> "C", daily_goal |-> 10000,
        history |-> (isoformat(now) :> 5000) @@ (isoformat(now - 1) :> 3000)],
       [name |-> "A", daily_goal |-> 10000,
        history |-> (isoformat(now) :> 5000) @@ (isoformat(now - 7) :> 9000)
                    @@ (isoformat(now + 1) :> 4000)],
       [name |-> "B", daily_goal |-> 9000,
        history |-> (isoformat(now) :> 12000) @@ ("not-a-date" :> 9000)
                    @@ (isoformat(now - 6) :> 1000)] >>

Teams(now) == {<<>>, TeamStreaks(now), TeamTies(now)}

WeeklyGoals ==
    {default.weekly_goal, [goal |-> 50000, week_start |-> isoformat(1)]}

\* the leaderboard of the team tab
CreateTeamLeaderboard(period) ==
    /\ Step
    /\ last' = [op |-> "create_team_leaderboard", args |-> <<period>>,
                error |-> "",
                result |-> create_team_leaderboard(data, period, today)]
    /\ UNCHANGED <<data, disk, today>>

\* the statistics tab
GetTeamStatistics ==
    /\ Step
    /\ last' = [op |-> "get_team_statistics", args |-> <<>>, error |-> "",
                result |-> get_team_statistics(data, today)]
    /\ UNCHANGED <<data, disk, today>>

\* db.get_team_steps_this_week()
GetTeamStepsThisWeek ==
    /\ Step
    /\ last' = [op |-> "get_team_steps_this_week", args |-> <<>>,
                error |-> "",
                result |-> get_team_steps_this_week(data, today)]
    /\ UNCHANGED <<data, disk, today>>

\* midnight in the weeks around Monday 2024-01-08
Midnight ==
    /\ Step
    /\ today' = today + 1
    /\ last' = Did("tick", <<>>)
    /\ UNCHANGED <<data, disk>>

\* a session on Sunday 2024-01-07 or Monday 2024-01-08 with a team on file
StatsInit ==
    /\ today \in {7, 8}
    /\ \E users \in Teams(today), weekly_goal \in WeeklyGoals :
          data = [default EXCEPT !.users = users,
                                 !.weekly_goal = weekly_goal]
    /\ disk = save_data(data)
    /\ nops = 0
    /\ last = Did("init", <<>>)
    /\ other_data = None     \* no second session

StatsNext ==
    \/ \E u \in Usernames, s \in StepInputs, back \in 0..1 :
          LogSteps(u, s, isoformat(today - back))
    \/ \E u \in Usernames, g \in GoalInputs : SetGoal(u, g)
    \/ \E g \in {100000} : SetWeeklyGoal(g)
    \/ \E period \in {"today", "week"} : CreateTeamLeaderboard(period)
    \/ GetTeamStatistics
    \/ GetTeamStepsThisWeek
    \/ Midnight

StatsSpec == StatsInit /\ [][StatsNext]_vars

----------------------------------------------------------------------------
(* Team milestones *)

\* the thresholds of milestone_levels, in the order of the list
milestone_levels == <<10000000, 5000000, 1000000, 500000, 100000>>

\* reversed(milestone_levels)
reversed(levels) == [i \in 1..Len(levels) |-> levels[Len(levels) + 1 - i]]

\* a loop that keeps the first threshold passing the test and breaks: the
\* threshold as a one-element tuple, the empty tuple for None
FirstOf(hits) == IF hits = <<>> THEN <<>> ELSE <<Head(hits)>>

\* mutant: a milestone is reached only when the total is above it
achieved_milestone_above(total) ==
    FirstOf(SelectSeq(milestone_levels, LAMBDA threshold : total > threshold))

\* achieved_milestone after the first loop
achieved_milestone(total) ==
    FirstOf(SelectSeq(milestone_levels, LAMBDA threshold : total >= threshold))

\* next_milestone after the second loop
next_milestone(total) ==
    FirstOf(SelectSeq(reversed(milestone_levels),
                      LAMBDA threshold : total < threshold))

\* the milestones of the statistics tab, shown when there are members
Milestones ==
    /\ Step
    /\ data.users # <<>>
    /\ LET total == get_team_statistics(data, today).total_steps_all_time IN
       last' = [op |-> "milestones", args |-> <<>>, error |-> "",
                result |-> [total |-> total,
                            achieved_milestone |-> achieved_milestone(total),
                            next_milestone |-> next_milestone(total)]]
    /\ UNCHANGED <<data, disk, today>>

\* all-time totals on file: none, and one step short of each milestone
TotalsOnFile == {0} \cup {milestone_levels[i] - 1 : i \in 1..Len(milestone_levels)}

\* a session with one member whose steps so far are one of TotalsOnFile
MilestoneInit ==
    /\ \E total \in TotalsOnFile :
          data = [default EXCEPT !.users =
                     << [name |-> "A", daily_goal |-> DEFAULT_DAILY_GOAL,
                         history |-> (isoformat(1) :> total)] >>]
    /\ disk = save_data(data)
    /\ today = 2
    /\ nops = 0
    /\ last = Did("init", <<>>)
    /\ other_data = None     \* no second session

MilestoneNext ==
    \/ \E u \in Usernames, s \in {1} \cup StepInputs, back \in 0..1 :
          LogSteps(u, s, isoformat(today - back))
    \/ Milestones

MilestoneSpec == MilestoneInit /\ [][MilestoneNext]_vars

----------------------------------------------------------------------------
(* Files of earlier versions *)

\* d without the keys in missing
Without(d, missing) == [k \in DOMAIN d \ missing |-> d[k]]

\* step_data.json with any of the three later sections missing
OlderFiles ==
    {[exists |-> TRUE, content |-> Without(CurrentFile, missing)] :
        missing \in SUBSET {"challenge", "weekly_goal", "admin_message"}}

\* a new session: init_session_state constructs StepTrackerDB on the file
OpenStore ==
    /\ Step
    /\ data' = load_data(disk)
    /\ last' = Did("load_data", <<>>)
    /\ UNCHANGED <<disk, today>>

LoadInit ==
    /\ disk \in OlderFiles
    /\ data = load_data(disk)
    /\ today = 2
    /\ nops = 0
    /\ last = Did("init", <<>>)
    /\ other_data = None     \* no second session

LoadNext ==
    \/ OpenStore
    \/ GetChallenge
    \/ \E u \in Usernames : GetUserData(u)
    \/ \E u \in Usernames, g \in GoalInputs : SetGoal(u, g)
    \/ \E t \in AdminInputs : SetAdminMessage(t)
    \/ EndChallenge

LoadSpec == LoadInit /\ [][LoadNext]_vars

----------------------------------------------------------------------------
(* Two sessions on one file *)

\* mutant: the second session reads the file again before it changes it
SecondSetGoalReloads(username, goal) ==
    /\ nops < MaxOps /\ nops' = nops + 1
    /\ other_data' = set_goal(load_data(disk), username, goal)
    /\ disk' = save_data(other_data')
    /\ last' = [op |-> "second:set_goal", args |-> <<username, goal>>,
                error |-> "", result |-> 0]
    /\ UNCHANGED <<data, today>>

\* db.set_goal in the second session: its own dict is changed and dumped
SecondSetGoal(username, goal) ==
    /\ nops < MaxOps /\ nops' = nops + 1
    /\ other_data' = set_goal(other_data, username, goal)
    /\ disk' = save_data(other_data')
    /\ last' = Did("second:set_goal", <<username, goal>>)
    /\ UNCHANGED <<data, today>>

\* db.log_steps in the second session
SecondLogSteps(username, steps, log_date) ==
    /\ nops < MaxOps /\ nops' = nops + 1
    /\ other_data' = log_steps(other_data, username, steps, log_date)
    /\ disk' = save_data(other_data')
    /\ last' = Did("second:log_steps", <<username, steps, log_date>>)
    /\ UNCHANGED <<data, today>>

\* two browser sessions: init_session_state gives each its own StepTrackerDB,
\* and both load the file as it is
TwoInit ==
    /\ disk \in InitialFiles
    /\ data = load_data(disk)
    /\ other_data = load_data(disk)
    /\ today = 2
    /\ nops = 0
    /\ last = [op |-> "init", args |-> <<>>, error |-> "", result |-> 0]

TwoNext ==
    \/ \E u \in Usernames, g \in GoalInputs : SetGoal(u, g)
    \/ \E u \in Usernames, s \in StepInputs : LogSteps(u, s, isoformat(today))
    \/ \E t \in AdminInputs : SetAdminMessage(t)
    \/ \E u \in Usernames, g \in GoalInputs : SecondSetGoal(u, g)
    \/ \E u \in Usernames, s \in StepInputs :
          SecondLogSteps(u, s, isoformat(today))

TwoSpec == TwoInit /\ [][TwoNext]_vars

----------------------------------------------------------------------------
(* Challenge pace on the team tab *)

\* what the team tab shows below the challenge progress on the day now.
\* kind is "none" (nothing shown), "target" (days left to a target end
\* date), "passed" (target date passed), "pace" (pace with days to goal) or
\* "keep" (days in only). avg_per_day is the quotient
\* steps_in_challenge / days_in, kept as that pair.
challenge_pace(d, now) ==
    LET c == get_challenge(d).challenge
        nothing == [kind |-> "none", days_in |-> 0, days_to_goal |-> 0,
                    days_left |-> 0, steps_needed |-> 0]
    IN
    IF ~(c.team_goal # 0 /\ Truthy(c.start_date)) \/ ~c.active THEN nothing
    ELSE
    LET steps_in_challenge == get_team_steps_in_challenge(d, now).total
        goal == c.team_goal
        start_d == fromisoformat(c.start_date)
        target_end == c.target_end_date
    IN
    IF Truthy(target_end)
    THEN IF ~parses(target_end) THEN nothing      \* except ValueError: pass
         ELSE IF fromisoformat(target_end) >= now
         THEN [nothing EXCEPT
                 !.kind = "target",
                 !.days_left = fromisoformat(target_end) - now,
                 !.steps_needed = IF goal - steps_in_challenge > 0
                                  THEN goal - steps_in_challenge ELSE 0]
         ELSE [nothing EXCEPT !.kind = "passed"]
    ELSE
    LET days_in == IF now - start_d # 0 THEN now - start_d ELSE 1   \* or 1
        steps_remaining == IF goal - steps_in_challenge > 0
                           THEN goal - steps_in_challenge ELSE 0
        avg_positive == \/ steps_in_challenge > 0 /\ days_in > 0
                        \/ steps_in_challenge < 0 /\ days_in < 0
    IN  IF avg_positive /\ steps_remaining > 0
        THEN [nothing EXCEPT
                !.kind = "pace",
                !.days_in = days_in,
                \* int(steps_remaining / avg_per_day) of a positive quotient
                !.days_to_goal =
                    IF steps_in_challenge > 0
                    THEN (steps_remaining * days_in) \div steps_in_challenge
                    ELSE (steps_remaining * (0 - days_in))
                            \div (0 - steps_in_challenge)]
        ELSE [nothing EXCEPT !.kind = "keep", !.days_in = days_in]

\* the team tab renders the challenge progress and the pace
ChallengePace ==
    /\ Step
    /\ data' = get_challenge(data)
    /\ LET r == get_team_steps_in_challenge(data, today)
           raises == /\ data.challenge.team_goal # 0
                     /\ Truthy(data.challenge.start_date)
                     /\ r.raised
       IN  last' = [op |-> "challenge_pace", args |-> <<>>,
                    error |-> IF raises THEN "ValueError" ELSE "",
                    result |-> IF raises THEN challenge_pace(default, today)
                               ELSE challenge_pace(data, today)]
    /\ UNCHANGED <<disk, today>>

PaceInit ==
    /\ disk \in InitialFiles
    /\ data = load_data(disk)
    /\ today = 2
    /\ nops = 0
    /\ other_data = None
    /\ last = [op |-> "init", args |-> <<>>, error |-> "", result |-> 0]

PaceNext ==
    \/ \E g \in TeamGoalInputs, s \in LogDates, t \in TargetInputs :
          SetChallenge(g, s, t)
    \/ \E u \in Usernames, s \in StepInputs : LogSteps(u, s, isoformat(today))
    \/ EndChallenge
    \/ Tick
    \/ ChallengePace

PaceSpec == PaceInit /\ [][PaceNext]_vars

----------------------------------------------------------------------------
(* Properties *)

\* the step just taken performed op
Performed(op) == nops' # nops /\ last'.op = op

\* d1 and d2 agree on key: both lack it or both have it with one value
SameItem(d1, d2, key) ==
    /\ (key \in DOMAIN d1) = (key \in DOMAIN d2)
    /\ key \in DOMAIN d1 => d1[key] = d2[key]

\* apart from username, users1 and users2 hold the same users and records
SameOtherUsers(users1, users2, username) ==
    /\ \A i \in 1..Len(users1) :
          users1[i].name # username =>
             Has(users2, users1[i].name)
             /\ Get(users2, users1[i].name) = users1[i]
    /\ \A i \in 1..Len(users2) :
          users2[i].name # username => Has(users1, users2[i].name)

\* C1: after log_steps(username, steps, log_date) with steps >= 0 the user's
\* entry for log_date is exactly steps (also when an entry was there before:
\* the new value replaces it), the user's entries for other dates are what
\* they were, and the other users are unchanged.
C1_LogStepsOverwrites ==
    [][Performed("log_steps") /\ last'.args[2] >= 0 =>
        LET username == last'.args[1]
            steps == last'.args[2]
            log_date == last'.args[3]
            before == IF Has(data.users, username)
                      THEN Get(data.users, username).history ELSE <<>>
        IN  /\ Has(data'.users, username)
            /\ LET after == Get(data'.users, username).history IN
               /\ log_date \in DOMAIN after /\ after[log_date] = steps
               /\ DOMAIN after = DOMAIN before \cup {log_date}
               /\ \A k \in DOMAIN before \ {log_date} : after[k] = before[k]
            /\ SameOtherUsers(data.users, data'.users, username)
    ]_vars

\* C1 witness: on the legacy file, where A had 10000 steps on 2024-01-02,
\* 5000 steps were logged for that day: the entry is 5000 and the entry of
\* 2024-01-01 is still 7000.
C1_Witness ==
    /\ nops = 1
    /\ last.op = "log_steps"
    /\ last.args = <<"A", 5000, isoformat(2)>>
    /\ Len(data.users) = 1
    /\ Get(data.users, "A").history =
          (isoformat(1) :> 7000) @@ (isoformat(2) :> 5000)

AllGoalsPositive(d) ==
    \A i \in 1..Len(d.users) : d.users[i].daily_goal > 0

\* C2: set_goal with goal <= 0 is rejected with InvalidGoal and leaves the
\* store in memory and on disk as it was; every stored daily_goal is > 0.
C2_InvalidGoalRejected ==
    [][/\ Performed("set_goal") /\ last'.args[2] <= 0 =>
            data' = data /\ disk' = disk /\ last'.error = "InvalidGoal"
       /\ AllGoalsPositive(data) => AllGoalsPositive(data')
    ]_vars

\* C3: log_steps with steps < 0 is rejected with InvalidSteps and leaves the
\* store in memory and on disk as it was.
C3_InvalidStepsRejected ==
    [][Performed("log_steps") /\ last'.args[2] < 0 =>
            data' = data /\ disk' = disk /\ last'.error = "InvalidSteps"
    ]_vars

\* C4: restoring a backup without a users section is refused with the
\* invalid-backup error, and the store in memory and on disk is left as it
\* was, whatever other sections the backup carries.
C4_BackupWithoutUsersRefused ==
    [][Performed("restore")
       /\ "users" \notin DOMAIN json_load(last'.args[1]) =>
            /\ last'.error = "Invalid backup file: missing 'users'."
            /\ data' = data
            /\ disk' = disk
    ]_vars

\* C4 witness: the backup that carries challenge, weekly_goal and
\* admin_message but no users was refused on the store loaded from the
\* current file, whose sections are all still the file's.
C4_Witness ==
    /\ nops = 1
    /\ last.op = "restore"
    /\ last.args = <<json_dumps(BackupNoUsers)>>
    /\ last.error # ""
    /\ data = CurrentFile
    /\ disk = [exists |-> TRUE, content |-> CurrentFile]

\* C5: a restore that is accepted replaces each section the backup has by
\* the backup's and leaves each section the backup lacks as it was.
C5_SectionsRestoredIndependently ==
    [][Performed("restore") /\ last'.error = "" =>
        LET restored == json_load(last'.args[1]) IN
        \A k \in Sections :
            IF k \in DOMAIN restored
            THEN k \in DOMAIN data' /\ data'[k] = restored[k]
            ELSE SameItem(data, data', k)
    ]_vars

\* C5 witness: the users-only backup was restored over the current file:
\* the users are the backup's, the other three sections the file's.
C5_Witness ==
    /\ nops = 1
    /\ last.op = "restore"
    /\ last.args = <<json_dumps(BackupUsersOnly)>>
    /\ last.error = ""
    /\ data.users = BackupUsersOnly.users
    /\ data.challenge = CurrentFile.challenge
    /\ data.weekly_goal = CurrentFile.weekly_goal
    /\ data.admin_message = "go team"

\* "Download backup" of d, restored by a store that found no file
RoundTrip(d) ==
    LET backup_json == json_dumps(d)
        restored == json_load(backup_json)
        fresh == load_data([exists |-> FALSE])
    IN  IF "users" \in DOMAIN restored
        THEN load_from_backup(fresh, restored)
        ELSE fresh

\* C6: in every reachable state, the backup of the store restored into a
\* fresh store gives the same users, challenge, weekly_goal and
\* admin_message.
C6_BackupRoundTrip ==
    LET restored_store == RoundTrip(data) IN
    \A k \in Sections :
        /\ k \in DOMAIN data
        /\ k \in DOMAIN restored_store
        /\ restored_store[k] = data[k]

\* C6 witness: a store with two users with history, an ended challenge, a
\* weekly goal and an announcement, none of them the defaults.
C6_Witness ==
    /\ C6_BackupRoundTrip
    /\ last.op = "end_challenge"
    /\ Len(data.users) = 2
    /\ \A i \in 1..2 : DOMAIN data.users[i].history # {}
    /\ ~data.challenge.active /\ data.challenge.end_date = isoformat(2)
    /\ data.challenge.target_end_date = isoformat(3)
    /\ data.weekly_goal.goal = 50000
    /\ data.admin_message = "go team"


\* C7: in every reachable state an active challenge has a start date and no
\* end date; set_challenge makes the challenge active with its start date
\* set and no end date; end_challenge(end_date) makes it inactive with that
\* end date and leaves team_goal, start_date and target_end_date as they were.
C7_ChallengeLifecycle ==
    /\ [](data.challenge.active =>
            /\ DictGet(data.challenge, "start_date") # None
            /\ DictGet(data.challenge, "end_date") = None)
    /\ [][/\ Performed("set_challenge") =>
                /\ data'.challenge.active
                /\ data'.challenge.start_date = last'.args[2]
                /\ data'.challenge.start_date # None
                /\ data'.challenge.end_date = None
          /\ Performed("end_challenge") =>
                /\ ~data'.challenge.active
                /\ data'.challenge.end_date = last'.args[1]
                /\ data'.challenge.end_date # None
                /\ \A k \in {"team_goal", "start_date", "target_end_date"} :
                      SameItem(data.challenge, data'.challenge, k)
         ]_vars

\* C7 witness: a challenge started for 2024-01-03 without target and then
\* ended on 2024-01-02 (today): inactive, end date stamped, the rest kept.
C7_Witness ==
    /\ nops = 2
    /\ last.op = "end_challenge"
    /\ data.challenge =
          [active |-> FALSE, team_goal |-> 20000,
           start_date |-> isoformat(3), end_date |-> isoformat(2),
           target_end_date |-> None]

\* C8: set_challenge and end_challenge leave the users (their order, goals
\* and histories), the weekly goal and the announcement as they were.
C8_ChallengeLeavesUsers ==
    [][Performed("set_challenge") \/ Performed("end_challenge") =>
            /\ data'.users = data.users
            /\ data'.weekly_goal = data.weekly_goal
            /\ data'.admin_message = data.admin_message
    ]_vars

\* C8 witness: a challenge was started on the store loaded from the current
\* file; its two users, weekly goal and announcement are the file's.
C8_Witness ==
    /\ nops = 1
    /\ last.op = "set_challenge"
    /\ data.challenge.team_goal = 20000
    /\ data.users = CurrentFile.users
    /\ data.weekly_goal = CurrentFile.weekly_goal
    /\ data.admin_message = CurrentFile.admin_message

\* C9: set_challenge succeeds in any state, and afterwards the challenge is
\* exactly: active, the new team_goal, start_date and target_end_date, no
\* end_date, and no other key.
C9_StartOverwrites ==
    [][Performed("set_challenge") =>
            /\ last'.error = ""
            /\ data'.challenge =
                  [active |-> TRUE,
                   team_goal |-> last'.args[1],
                   start_date |-> last'.args[2],
                   end_date |-> None,
                   target_end_date |-> last'.args[3]]
    ]_vars

\* C9 witness: on the current file, whose challenge is active with team goal
\* 25000 and target 2024-01-03, a challenge was started without target: the
\* old target is gone.
C9_Witness ==
    /\ nops = 1
    /\ last.op = "set_challenge"
    /\ last.args = <<20000, isoformat(2), None>>
    /\ data.users = CurrentFile.users
    /\ data.challenge.active
    /\ data.challenge.team_goal = 20000
    /\ data.challenge.target_end_date = None

RECURSIVE SumOverDays(_, _)
SumOverDays(history, days) ==
    IF days = {} THEN 0
    ELSE LET n == CHOOSE m \in days : TRUE IN
         (IF IsoTable[n] \in DOMAIN history THEN history[IsoTable[n]] ELSE 0)
         + SumOverDays(history, days \ {n})

\* the sum of all users' entries for the days lo..hi
TeamStepsBetween(users, lo, hi) ==
    SumSeq([i \in 1..Len(users) |->
              SumOverDays(users[i].history, {n \in Ordinals : lo <= n /\ n <= hi})])

\* C10: when the range endpoints are dates, get_team_steps_in_challenge
\* returns the sum of all users' entries for the days from start_date to
\* end_date (today when there is no end date), both included, and 0 when
\* there is no start date.
C10_ProgressInRange ==
    last.op = "get_team_steps_in_challenge" =>
        LET start == DictGet(data.challenge, "start_date")
            end == DictGet(data.challenge, "end_date")
        IN  /\ start = None => last.error = "" /\ last.result = 0
            /\ start # None /\ parses(start) /\ (end = None \/ parses(end)) =>
                  /\ last.error = ""
                  /\ last.result =
                        TeamStepsBetween(data.users, fromisoformat(start),
                            IF end = None THEN today ELSE fromisoformat(end))

\* C10 witness: challenge started on 2024-01-02 and read the same day: B's
\* 5000 and A's 10000 of that day count, B's 3000 of the day before and B's
\* 2000 of the day after do not.
C10_Witness ==
    /\ nops = 2
    /\ last.op = "get_team_steps_in_challenge"
    /\ data.users = CurrentFile.users
    /\ data.challenge.active
    /\ data.challenge.start_date = isoformat(2)
    /\ today = 2
    /\ last.result = 15000


\* C11: a malformed date never aborts an aggregation: whatever dates the
\* store holds, get_team_steps_in_challenge returns a total and raises
\* nothing.
C11_MalformedDateNeverAborts ==
    last.op = "get_team_steps_in_challenge" => last.error = ""

\* C12: "Remove This User" deletes exactly that user, the others keeping
\* their records and their order, and "Clear All Users" (confirmed) leaves
\* no user; both write the file and leave challenge, weekly_goal and
\* admin_message as they were.
C12_RemoveAndClear ==
    [][/\ Performed("remove_user") /\ Has(data.users, last'.args[1]) =>
            /\ ~Has(data'.users, last'.args[1])
            /\ Len(data'.users) = Len(data.users) - 1
            /\ \A i \in 1..Len(data.users), j \in 1..Len(data.users) :
                  (i < j /\ data.users[i].name # last'.args[1]
                         /\ data.users[j].name # last'.args[1]) =>
                     \E m \in 1..Len(data'.users), n \in 1..Len(data'.users) :
                        /\ m < n
                        /\ data'.users[m] = data.users[i]
                        /\ data'.users[n] = data.users[j]
            /\ SameOtherUsers(data.users, data'.users, last'.args[1])
       /\ Performed("clear_all") /\ last'.error = "" =>
            data'.users = <<>>
       /\ (Performed("remove_user") /\ Has(data.users, last'.args[1]))
          \/ (Performed("clear_all") /\ last'.error = "") =>
            /\ disk' = [exists |-> TRUE, content |-> data']
            /\ \A k \in Sections \ {"users"} : SameItem(data, data', k)
      ]_vars

\* C12 witness: A was removed from the store loaded from the current file:
\* B is left with its record, the file holds the same, and the challenge,
\* weekly goal and announcement are the file's.
C12_Witness ==
    /\ nops = 1
    /\ last.op = "remove_user"
    /\ last.args = <<"A">>
    /\ data.users = <<CurrentFile.users[1]>>
    /\ data.challenge = CurrentFile.challenge
    /\ data.weekly_goal = CurrentFile.weekly_goal
    /\ data.admin_message = CurrentFile.admin_message
    /\ disk = [exists |-> TRUE, content |-> data]

\* C13: at any point between calls a store constructed on the same file
\* loads exactly the state the session's store holds in memory: mutating
\* calls write through, and reads leave memory and file in agreement.
C13_WriteThrough ==
    load_data(disk) = data

\* the calls of the step that changed the store
Mutated ==
    \/ \E op \in {"set_goal", "log_steps", "set_challenge", "end_challenge",
                   "set_weekly_goal", "set_admin_message"} : Performed(op)
    \/ Performed("get_user_data") /\ ~Has(data.users, last'.args[1])
    \/ Performed("remove_user") /\ Has(data.users, last'.args[1])
    \/ Performed("clear_all") /\ last'.error = ""
    \/ Performed("restore") /\ last'.error = ""

\* C13 (amended): every call that changes the store leaves the file equal
\* to the dict in memory; between calls a store constructed on the file
\* loads the users, weekly goal and announcement held in memory, and a
\* challenge that is the one in memory except that the key target_end_date,
\* which get_challenge adds in memory as None without saving, may be
\* missing from it.
C13_WriteThroughUpToTargetKey ==
    /\ [](LET persisted == load_data(disk) IN
            /\ persisted.users = data.users
            /\ persisted.weekly_goal = data.weekly_goal
            /\ persisted.admin_message = data.admin_message
            /\ \/ data.challenge = persisted.challenge
               \/ /\ "target_end_date" \notin DOMAIN persisted.challenge
                  /\ data.challenge =
                        persisted.challenge @@ ("target_end_date" :> None))
    /\ [][Mutated => disk' = [exists |-> TRUE, content |-> data']]_vars

\* C13 witness: get_challenge was called on the store loaded from the
\* legacy file: the challenge in memory has the key target_end_date, the
\* one a new store loads from the file has not.
C13_Witness ==
    /\ nops = 1
    /\ last.op = "get_challenge"
    /\ disk = [exists |-> TRUE, content |-> LegacyFile]
    /\ "target_end_date" \in DOMAIN data.challenge
    /\ "target_end_date" \notin DOMAIN load_data(disk).challenge

\* C14: get_user_data on a known user changes neither memory nor file and
\* returns the stored record; on an unknown user it appends the user with
\* daily_goal 10000 and an empty history and writes the file; set_goal and
\* log_steps on an unknown user leave exactly that new user with their
\* change applied.
C14_GetOrCreateUser ==
    [][/\ Performed("get_user_data") =>
            LET username == last'.args[1] IN
            IF Has(data.users, username)
            THEN /\ data' = data /\ disk' = disk
                 /\ Get(get_user_data(data, username).users, username)
                       = Get(data.users, username)
            ELSE /\ data'.users =
                       Append(data.users,
                              [name |-> username, daily_goal |-> 10000,
                               history |-> <<>>])
                 /\ \A k \in Sections \ {"users"} : SameItem(data, data', k)
                 /\ disk' = [exists |-> TRUE, content |-> data']
       /\ Performed("set_goal") /\ ~Has(data.users, last'.args[1]) =>
            data'.users =
                Append(data.users,
                       [name |-> last'.args[1], daily_goal |-> last'.args[2],
                        history |-> <<>>])
       /\ Performed("log_steps") /\ ~Has(data.users, last'.args[1]) =>
            data'.users =
                Append(data.users,
                       [name |-> last'.args[1], daily_goal |-> 10000,
                        history |-> (last'.args[3] :> last'.args[2])])
      ]_vars

\* C14 witness: B, unknown to the legacy file, was looked up: B follows A
\* with goal 10000 and no history, and the file holds both.
C14_Witness ==
    /\ nops = 1
    /\ last.op = "get_user_data"
    /\ last.args = <<"B">>
    /\ data.users =
          <<LegacyFile.users[1],
            [name |-> "B", daily_goal |-> 10000, history |-> <<>>]>>
    /\ disk = [exists |-> TRUE, content |-> data]


\* the place of username in the list of usernames
Place(usernames, username) ==
    CHOOSE i \in 1..Len(usernames) : usernames[i] = username

\* C15: the leaderboard has one row per known user, no row has fewer steps
\* than a row below it, rows with equal steps stand in the order of
\* get_all_usernames, and for the period "today" a row's steps are the
\* user's entry for today (0 without one) and its goal the user's
\* daily_goal.
C15_Leaderboard ==
    last.op = "create_team_leaderboard" =>
        LET rows == last.result
            usernames == get_all_usernames(data)
        IN  /\ Len(rows) = Len(usernames)
            /\ \A i \in 1..Len(usernames) :
                  Cardinality({j \in 1..Len(rows) :
                                  rows[j].User = usernames[i]}) = 1
            /\ \A j \in 1..Len(rows), k \in 1..Len(rows) :
                  j < k =>
                     /\ rows[j].Steps >= rows[k].Steps
                     /\ rows[j].Steps = rows[k].Steps =>
                           Place(usernames, rows[j].User)
                              < Place(usernames, rows[k].User)
            /\ last.args = <<"today">> =>
                  \A j \in 1..Len(rows) :
                     LET user == Get(data.users, rows[j].User) IN
                     /\ rows[j].Steps =
                           IF isoformat(today) \in DOMAIN user.history
                           THEN user.history[isoformat(today)] ELSE 0
                     /\ rows[j].Goal = user.daily_goal

\* C15 witness: today's leaderboard of the team listed as C, A, B, where
\* C and A both have 5000 steps today and B has 12000: B, then C, then A.
C15_Witness ==
    /\ nops = 1
    /\ last.op = "create_team_leaderboard"
    /\ last.args = <<"today">>
    /\ get_all_usernames(data) = <<"C", "A", "B">>
    /\ last.result =
          << [User |-> "B", Steps |-> 12000, Goal |-> 9000],
             [User |-> "C", Steps |-> 5000, Goal |-> 10000],
             [User |-> "A", Steps |-> 5000, Goal |-> 10000] >>

\* the user has an entry for day n that reaches the daily goal
GoalMet(user, n) ==
    /\ IsoTable[n] \in DOMAIN user.history
    /\ user.history[IsoTable[n]] >= user.daily_goal

\* the number of days in a row, from the day now backwards and at most 30,
\* on which the user met the goal
DaysInARow(user, now) ==
    CHOOSE k \in 0..30 :
        /\ \A i \in 0..(k - 1) : GoalMet(user, now - i)
        /\ k = 30 \/ ~GoalMet(user, now - k)

\* C16: a user's streak is the number of consecutive days, from today
\* backwards, with an entry of at least daily_goal; it stops at the first
\* day whose entry is below the goal or missing and at 30 days;
\* longest_streak is the largest streak of the team and avg_streak the
\* floor of the mean.
C16_Streaks ==
    last.op = "get_team_statistics" /\ data.users # <<>> =>
        LET users == data.users
            expected == [i \in 1..Len(users) |-> DaysInARow(users[i], today)]
        IN  /\ \A i \in 1..Len(users) :
                  streak(users[i], today, 0) = expected[i]
            /\ \A i \in 1..Len(users) :
                  last.result.longest_streak >= expected[i]
            /\ \E i \in 1..Len(users) :
                  last.result.longest_streak = expected[i]
            /\ last.result.avg_streak * Len(users) <= SumSeq(expected)
            /\ SumSeq(expected) < (last.result.avg_streak + 1) * Len(users)

\* the Monday of the week of day n
MondayOf(n) ==
    CHOOSE m \in Ordinals : m <= n /\ n - m <= 6 /\ (m - 1) % 7 = 0

\* C18: set_weekly_goal replaces the stored weekly goal by the new goal and
\* the Monday of today's week (today itself on a Monday); in every state a
\* stored week_start is a Monday and not after today.
C18_WeeklyGoal ==
    /\ [](data.weekly_goal.week_start # None =>
             /\ parses(data.weekly_goal.week_start)
             /\ weekday(fromisoformat(data.weekly_goal.week_start)) = 0
             /\ fromisoformat(data.weekly_goal.week_start) <= today)
    /\ [][Performed("set_weekly_goal") =>
             data'.weekly_goal =
                [goal |-> last'.args[1],
                 week_start |-> IsoTable[MondayOf(today)]]
         ]_vars

\* C18 witness: the weekly goal was set on Sunday 2024-01-07, a day later
\* it is Monday 2024-01-08 and the stored week still starts on Monday
\* 2024-01-01.
C18_Witness ==
    /\ nops = 2
    /\ today = 8
    /\ last.op = "tick"
    /\ data.weekly_goal = [goal |-> 100000, week_start |-> "2024-01-01"]

\* C19: get_team_steps_this_week returns the sum of all users' entries for
\* the days from the Monday of today's week to today, both included,
\* whatever week_start is stored.
C19_StepsThisWeek ==
    last.op = "get_team_steps_this_week" =>
        last.result = TeamStepsBetween(data.users, MondayOf(today), today)

\* C19 witness: on Monday 2024-01-08, with a weekly goal stored for the
\* week of 2024-01-01, the team with 5000, 5000 and 12000 steps today, 3000
\* on Sunday, 4000 entered for Tuesday and 9000 under a malformed key has
\* 22000 steps this week.
C19_Witness ==
    /\ nops = 1
    /\ today = 8
    /\ last.op = "get_team_steps_this_week"
    /\ data.weekly_goal.week_start = "2024-01-01"
    /\ data.users = TeamTies(8)
    /\ last.result = 22000


\* the thresholds a team can reach
Thresholds == {100000, 500000, 1000000, 5000000, 10000000}

\* the largest threshold not above total, as a tuple (empty when none)
HighestReached(total) ==
    IF \A t \in Thresholds : t > total THEN <<>>
    ELSE <<CHOOSE t \in Thresholds :
              t <= total /\ \A t2 \in Thresholds : t2 <= total => t2 <= t>>

\* the smallest threshold above total, as a tuple (empty when none)
LowestAhead(total) ==
    IF \A t \in Thresholds : t <= total THEN <<>>
    ELSE <<CHOOSE t \in Thresholds :
              t > total /\ \A t2 \in Thresholds : t2 > total => t <= t2>>

\* the all-time total of the team in d
AllTimeTotal(d) == total_steps_all_time(d.users)

\* a milestone tuple as a number, 0 for none
Reached(milestone) == IF milestone = <<>> THEN 0 ELSE milestone[1]

\* C17: the achieved milestone is the highest of 100K, 500K, 1M, 5M, 10M
\* not above the all-time total (none below 100K) and the next milestone
\* the lowest one above it (none from 10M on); when the total does not
\* fall, the achieved milestone does not fall; from 99,999 to 100,000
\* the achieved milestone goes from none to 100K and the next one from
\* 100K to 500K.
C17_Milestones ==
    /\ [](last.op = "milestones" =>
             /\ last.result.total = AllTimeTotal(data)
             /\ last.result.achieved_milestone
                   = HighestReached(last.result.total)
             /\ last.result.next_milestone = LowestAhead(last.result.total))
    /\ [][/\ AllTimeTotal(data') >= AllTimeTotal(data) =>
                Reached(achieved_milestone(AllTimeTotal(data')))
                   >= Reached(achieved_milestone(AllTimeTotal(data)))
          /\ AllTimeTotal(data) = 99999 /\ AllTimeTotal(data') = 100000 =>
                /\ achieved_milestone(AllTimeTotal(data)) = <<>>
                /\ next_milestone(AllTimeTotal(data)) = <<100000>>
                /\ achieved_milestone(AllTimeTotal(data')) = <<100000>>
                /\ next_milestone(AllTimeTotal(data')) = <<500000>>
         ]_vars

\* C17 witness: the team had 99,999 steps, one more step was logged and the
\* statistics tab shows 100K achieved and 500K next.
C17_Witness ==
    /\ nops = 2
    /\ last.op = "milestones"
    /\ data.users[1].history[isoformat(1)] = 99999
    /\ last.result = [total |-> 100000,
                      achieved_milestone |-> <<100000>>,
                      next_milestone |-> <<500000>>]


\* C20: a store constructed on a file without challenge, weekly_goal or
\* admin_message loads: a missing challenge is inactive with team_goal 0
\* and no start, end or target date (through get_challenge), a missing
\* weekly goal is 0 with no week_start, a missing announcement is empty,
\* and every section of the file, users included, is loaded as it is.
C20_MissingSectionsDefaulted ==
    last.op \in {"init", "load_data"} =>
        /\ \A k \in Sections :
              k \in DOMAIN disk.content =>
                 k \in DOMAIN data /\ data[k] = disk.content[k]
        /\ "challenge" \notin DOMAIN disk.content =>
              /\ data.challenge.active = FALSE
              /\ data.challenge.team_goal = 0
              /\ data.challenge.start_date = None
              /\ data.challenge.end_date = None
              /\ get_challenge(data).challenge.target_end_date = None
              /\ DOMAIN get_challenge(data).challenge =
                    {"active", "team_goal", "start_date", "end_date",
                     "target_end_date"}
        /\ "weekly_goal" \notin DOMAIN disk.content =>
              data.weekly_goal = [goal |-> 0, week_start |-> None]
        /\ "admin_message" \notin DOMAIN disk.content =>
              data.admin_message = ""

\* C20 witness: the file has the users and the weekly goal only; the store
\* opened on it has the file's users and weekly goal, the default challenge
\* and an empty announcement.
C20_Witness ==
    /\ nops = 1
    /\ last.op = "load_data"
    /\ DOMAIN disk.content = {"users", "weekly_goal"}
    /\ data.users = CurrentFile.users
    /\ data.weekly_goal = CurrentFile.weekly_goal
    /\ data.challenge = default.challenge
    /\ data.admin_message = ""


\* the step just taken is a write of the second session
SecondWrote ==
    nops' # nops /\ last'.op \in {"second:set_goal", "second:log_steps"}

\* the step just taken is a write of the first session
FirstWrote ==
    nops' # nops /\ last'.op \in {"set_goal", "log_steps", "set_admin_message"}

\* C21: with two stores on one file an update can be lost: a write of one
\* session reports no error and leaves in the file that session's dict
\* alone, so that every user and section its call does not touch is in the
\* file as that session loaded or left it, whatever the other session has
\* written since; while the second session does not write, the file keeps
\* holding what the first session has in memory.
C21_LostUpdate ==
    /\ [](nops = 0 => other_data = data /\ load_data(disk) = data)
    /\ [][/\ SecondWrote =>
                /\ last'.error = ""
                /\ disk' = [exists |-> TRUE, content |-> other_data']
                /\ SameOtherUsers(other_data.users, disk'.content.users,
                                  last'.args[1])
                /\ \A k \in Sections \ {"users"} :
                      disk'.content[k] = other_data[k]
                /\ data' = data
          /\ FirstWrote =>
                /\ last'.error = ""
                /\ disk' = [exists |-> TRUE, content |-> data']
                /\ last'.op # "set_admin_message" =>
                      /\ SameOtherUsers(data.users, disk'.content.users,
                                        last'.args[1])
                      /\ \A k \in Sections \ {"users"} :
                            disk'.content[k] = data[k]
                /\ last'.op = "set_admin_message" =>
                      \A k \in Sections \ {"admin_message"} :
                         disk'.content[k] = data[k]
                /\ other_data' = other_data
          /\ load_data(disk) = data /\ ~SecondWrote =>
                load_data(disk') = data'
         ]_vars

\* C21 witness: both sessions loaded the legacy file (A has 10000 steps on
\* 2024-01-02); the first logged 5000 steps for A on that day, then the
\* second set B's goal: the file has A's 10000 steps again, the first
\* session still shows 5000, and no error was reported.
C21_Witness ==
    /\ nops = 2
    /\ last.op = "second:set_goal"
    /\ last.args[1] = "B"
    /\ last.error = ""
    /\ disk = [exists |-> TRUE, content |-> other_data]
    /\ other_data.users =
          <<LegacyFile.users[1],
            [name |-> "B", daily_goal |-> last.args[2], history |-> <<>>]>>
    /\ LegacyFile.users[1].history["2024-01-02"] = 10000
    /\ data.users =
          <<[LegacyFile.users[1] EXCEPT !.history["2024-01-02"] = 5000]>>


\* the user has steps on day n
ActiveOn(user, n) ==
    IsoTable[n] \in DOMAIN user.history /\ user.history[IsoTable[n]] > 0

\* C22: active_this_week is the number of users with steps on at least one
\* of the 7 days up to today.
C22_ActiveThisWeek ==
    last.op = "get_team_statistics" /\ data.users # <<>> =>
        last.result.active_this_week =
            Cardinality({i \in 1..Len(data.users) :
                            \E n \in (today - 6)..today :
                               ActiveOn(data.users[i], n)})


\* C23: for an active challenge without target end date the pace uses
\* days_in = max(today - start date, 1), at least 1 also for a start date
\* of today or later; days to goal, floor(remaining / (progress / days_in)),
\* are shown exactly when the average per day and the remaining steps are
\* positive, and are then at least 0.
C23_Pace ==
    last.op = "challenge_pace" /\ last.result.kind \in {"pace", "keep"} =>
        LET c == data.challenge
            elapsed == today - fromisoformat(c.start_date)
            progress == get_team_steps_in_challenge(data, today).total
            remaining == IF c.team_goal - progress > 0
                         THEN c.team_goal - progress ELSE 0
            daysIn == IF elapsed > 1 THEN elapsed ELSE 1
        IN  /\ last.result.days_in = daysIn
            /\ last.result.days_in >= 1
            /\ last.result.kind = "pace" <=> (progress > 0 /\ remaining > 0)
            /\ last.result.kind = "pace" =>
                  /\ last.result.days_to_goal >= 0
                  /\ last.result.days_to_goal * progress <= remaining * daysIn
                  /\ remaining * daysIn
                        < (last.result.days_to_goal + 1) * progress

====
